---- MODULE Spec2Model ----
(***************************************************************************)
(* The sale-commit path of the pharmacy point-of-sale backend:             *)
(* POST /api/sales (server/routes.ts) on top of DatabaseStorage            *)
(* (server/storage.ts) and the relational schema (pgTable declarations).   *)
(*                                                                         *)
(* A request handler runs synchronously between two awaits, so one action  *)
(* of the model is "the database executes the awaited call and the handler *)
(* continues up to its next await".  Two handlers interleave at awaits.    *)
(*                                                                         *)
(* JSON values supplied by the caller are records [shape, val]: shape says *)
(* whether the value conforms to the insert schema of its column ("ok"),   *)
(* does not ("bad") or is absent ("undefined").  An amount's val is in     *)
(* thousandths of the currency unit; stored decimal(10, 2) amounts are in  *)
(* hundredths.  The literal discountAmount 0 of the handler is taken to    *)
(* conform to its schema.                                                  *)
(*                                                                         *)
(* The other mutating routes of registerRoutes run as one step each: their *)
(* middleware chain, then the handler.  The tables they write are kept as  *)
(* the number of writes accepted; drug_batches keeps its rows.             *)
(***************************************************************************)
EXTENDS Integers, Sequences, FiniteSets, TLC

\* ----------------------------------------------------------------- bounds
MaxLines == 2      \* longest cart of a handler that runs alone
MaxRaceLines == 1  \* longest cart of handlers that overlap
MaxQty == 2        \* largest quantity of a cart line
InitQty == 3       \* on-hand quantity of every batch at the start
MaxClock == 1      \* last millisecond the wall clock reaches
NumBatches == 2    \* number of existing drug batches
MaxCalls == 1      \* calls of the endpoints other than the sale commit
MaxPurchaseItems == 2  \* longest item list of a purchase order

Procs == {"h1", "h2"}              \* two request handlers that may overlap
BatchIds == 1..NumBatches          \* ids of the rows of drug_batches
MissingId == NumBatches + 1        \* an id no row of drug_batches has
SharedBatch == CHOOSE b \in BatchIds : \A c \in BatchIds : b <= c

VARIABLES
  drugBatches,     \* table drug_batches: id -> [drugId, quantity]
  sales,           \* table sales: set of rows
  saleItems,       \* table sale_items: set of rows
  salesSeq,        \* serial sequence behind sales.id
  saleItemsSeq,    \* serial sequence behind sale_items.id
  clock,           \* last value Date.now() returned
  pc,              \* handler -> the await it is suspended at
  req,             \* handler -> the request it serves
  saleData,        \* handler -> parsed sale header (const saleData)
  newSale,         \* handler -> row returned by createSale (const newSale)
  idx,             \* handler -> position of the for-of loop in items
  items,           \* handler -> rows pushed so far (const saleItems = [])
  newQty,          \* handler -> the quantity argument of updateDrugBatch
  res,             \* handler -> response sent
  pre,             \* handler -> the store when its request arrived
  alone,           \* handler -> no other commit was in flight during its run
  updates,         \* handler -> calls of updateDrugBatch it has made
  tables,          \* table -> writes accepted (tables the sale commit leaves alone)
  calls,           \* calls served by the endpoints other than the sale commit
  last             \* the last of those calls: its route, token and response status

vars == <<drugBatches, sales, saleItems, salesSeq, saleItemsSeq, clock, pc, req,
          saleData, newSale, idx, items, newQty, res, pre, alone, updates, tables,
          calls, last>>

\* What the sale commit never touches.
apiVars == <<tables, calls, last>>

\* ------------------------------------------------------------ JSON values
Ok(v) == [shape |-> "ok", val |-> v]
Bad == [shape |-> "bad", val |-> 0]
NoValue == [shape |-> "undefined", val |-> 0]
NoString == [shape |-> "undefined", val |-> ""]
NoRow == [id |-> 0]
NoResponse == [status |-> 0]

\* decimal(p, 2): the database rounds a value to two fractional digits
\* (half away from zero); v is in thousandths, the result in hundredths.
ToDecimal(v) == IF v >= 0 THEN (v + 5) \div 10 ELSE -((5 - v) \div 10)

\* `POS-${new Date().getFullYear()}-${Date.now()}`: the year of tick t and t
\* itself; the year changes at tick NewYear.
NewYear == 1
ReceiptNumber(t) == <<"POS", IF t < NewYear THEN 0 ELSE 1, t>>

\* -------------------------------------------------------------- schemas
\* createInsertSchema(sales).omit({id, createdAt}).parse: every notNull column
\* without default must be present and conform; the others may be absent.
Conforms(v) == v.shape = "ok"
OptConforms(v) == v.shape \in {"ok", "undefined"}

insertSaleSchema(d) ==
  /\ Conforms(d.subtotal)
  /\ Conforms(d.taxAmount)
  /\ OptConforms(d.discountAmount)
  /\ Conforms(d.totalAmount)
  /\ Conforms(d.paymentMethod)
  /\ OptConforms(d.customerName)
  /\ OptConforms(d.customerPhone)

\* createInsertSchema(saleItems).omit({id}).parse of one cart line
insertSaleItemSchema(item) ==
  /\ Conforms(item.drugBatchId)
  /\ Conforms(item.quantity)
  /\ Conforms(item.unitPrice)
  /\ Conforms(item.totalPrice)

\* ------------------------------------------------------------- requests
\* A cart line as the caller supplies it.
Line(b, q, u, t) == [drugBatchId |-> b, quantity |-> q, unitPrice |-> u, totalPrice |-> t]

\* Unit prices a caller supplies: 0.004 and 0.01
UnitPrices == {4, 10}

\* Lines whose every field conforms, with totalPrice = quantity x unitPrice.
GoodLines ==
  { Line(Ok(b), Ok(q), Ok(u), Ok(q * u)) :
      b \in BatchIds \cup {MissingId}, q \in 1..MaxQty, u \in UnitPrices }

\* Lines whose every field conforms and whose quantity is zero or negative:
\* quantity is integer("quantity").notNull(), which the schema takes as any
\* integer.
NonPositiveQtys == {-1, 0}
NonPositiveLines ==
  { Line(Ok(SharedBatch), Ok(q), Ok(10), Ok(q * 10)) : q \in NonPositiveQtys }

\* Lines with one field of the wrong shape.
BadLines ==
  { Line(Ok(SharedBatch), Bad, Ok(10), Ok(10)),
    Line(Ok(SharedBatch), Ok(1), Ok(10), Bad) }

SeqsUpTo(S, n) == UNION { [1..k -> S] : k \in 0..n }

Body(its, sub, tax, tot, pay, recv) ==
  [items |-> its, subtotal |-> sub, taxAmount |-> tax, totalAmount |-> tot,
   paymentMethod |-> pay, amountReceived |-> recv, discountAmount |-> NoValue,
   customerName |-> NoString, customerPhone |-> NoString]

Present(lines) == [present |-> TRUE, lines |-> lines]
Absent == [present |-> FALSE, lines |-> <<>>]

\* Bodies with a conforming header: any cart, or no items field at all.
CartBodies ==
  { Body(Present(c), Ok(120), Ok(0), Ok(120), Ok("cash"), NoValue) :
      c \in SeqsUpTo(GoodLines \cup NonPositiveLines \cup BadLines, MaxLines) }
  \cup { Body(Absent, Ok(120), Ok(0), Ok(120), Ok("cash"), NoValue) }

\* Bodies whose header has a field of the wrong shape or lacks a required one.
BadHeaderBodies ==
  { Body(Present(<<l>>), Ok(120), Ok(0), tot, pay, NoValue) :
      l \in { Line(Ok(SharedBatch), Ok(1), Ok(10), Ok(10)) },
      tot \in {Ok(120), Bad}, pay \in {Ok("cash"), NoString} }
  \ { Body(Present(<<Line(Ok(SharedBatch), Ok(1), Ok(10), Ok(10))>>),
           Ok(120), Ok(0), Ok(120), Ok("cash"), NoValue) }

\* Bodies that differ in what the caller says was paid: nothing, zero, less
\* than totalAmount, totalAmount, more than totalAmount.
AmountsReceived == {NoValue, Ok(0), Ok(100), Ok(120), Ok(150)}
PaymentBodies ==
  { Body(Present(<<l>>), Ok(120), Ok(0), Ok(120), Ok("cash"), recv) :
      l \in { Line(Ok(SharedBatch), Ok(1), Ok(120), Ok(120)) },
      recv \in AmountsReceived }

\* Bodies that supply a discount of 0.05 or of zero.
WithDiscount(body, d) == [body EXCEPT !.discountAmount = d]
DiscountBodies ==
  { WithDiscount(Body(Present(<<l>>), Ok(120), Ok(0), Ok(70), Ok("cash"), NoValue), d) :
      l \in { Line(Ok(SharedBatch), Ok(1), Ok(120), Ok(120)) },
      d \in {Ok(50), Ok(0)} }

\* Bodies of handlers that overlap: conforming carts on one shared batch.
RaceLines == { Line(Ok(SharedBatch), Ok(q), Ok(10), Ok(q * 10)) : q \in 1..MaxQty }
RaceBodies ==
  { Body(Present(c), Ok(120), Ok(0), Ok(120), Ok("cash"), NoValue) :
      c \in SeqsUpTo(RaceLines, MaxRaceLines) }

Tokens == {"missing", "invalid", "valid"}
User == [id |-> 1, username |-> "u", role |-> "cashier"]

\* role: admin, pharmacist, cashier.  A token named after a role is one the
\* server signed for user 1 with that role; "valid" is the cashier's.
Roles == {"admin", "pharmacist", "cashier"}
ApiTokens == {"missing", "invalid"} \cup Roles
TokenUser(token) == IF token \in Roles THEN [User EXCEPT !.role = token] ELSE User

\* --------------------------------------------------------------- routes
\* The tables the sale commit leaves alone, each kept as the number of writes
\* (inserts, updates, deletes) the database has accepted on it.
Tables == {"users", "categories", "suppliers", "customers", "drugs",
           "purchases", "purchase_items", "settings"}
NoWrites == [t \in Tables |-> 0]
WritesTo(t) == [NoWrites EXCEPT ![t] = 1]
NoCall == [route |-> "", token |-> "missing", status |-> 0, supplied |-> 0]

\* app.<method>(path, ...middleware, handler): auth says authenticateToken is
\* in the chain, restricted says requireRole(roles) is; success is the status
\* of the handler's last line and fail the statuses of its early returns and
\* of its catch; writes and batches are what the handler stores on success.
Route(name, auth, restricted, roles, success, fail, writes, batches) ==
  [name |-> name, auth |-> auth, restricted |-> restricted, roles |-> roles,
   success |-> success, fail |-> fail, writes |-> writes, batches |-> batches]

Register ==
  Route("POST /api/auth/register", FALSE, FALSE, {}, 201, {409, 500},
        WritesTo("users"), <<>>)
ChangePassword ==
  Route("PUT /api/auth/change-password", TRUE, FALSE, {}, 200,
        {400, 404, 401, 500}, WritesTo("users"), <<>>)
CreateCategory ==
  Route("POST /api/categories", TRUE, TRUE, {"admin"}, 201, {500},
        WritesTo("categories"), <<>>)
UpdateCategory ==
  Route("PUT /api/categories/:id", TRUE, TRUE, {"admin"}, 200, {500},
        WritesTo("categories"), <<>>)
DeleteCategory ==
  Route("DELETE /api/categories/:id", TRUE, TRUE, {"admin"}, 200, {500},
        WritesTo("categories"), <<>>)
CreateSupplier ==
  Route("POST /api/suppliers", TRUE, TRUE, {"admin", "pharmacist"}, 201, {500},
        WritesTo("suppliers"), <<>>)
CreateCustomer ==
  Route("POST /api/customers", TRUE, FALSE, {}, 201, {500},
        WritesTo("customers"), <<>>)
CreateDrug ==
  Route("POST /api/drugs", TRUE, TRUE, {"admin", "pharmacist"}, 201, {500},
        WritesTo("drugs"), <<>>)
UpdateDrug ==
  Route("PUT /api/drugs/:id", TRUE, TRUE, {"admin", "pharmacist"}, 200, {500},
        WritesTo("drugs"), <<>>)
DeleteDrug ==
  Route("DELETE /api/drugs/:id", TRUE, TRUE, {"admin"}, 204, {500},
        WritesTo("drugs"), <<>>)
CreateDrugBatch ==
  Route("POST /api/drug-batches", TRUE, TRUE, {"admin", "pharmacist"}, 201, {500},
        NoWrites, <<[drugId |-> 1, quantity |-> InitQty]>>)
\* one purchase with one item: createPurchase, then createPurchaseItem
CreatePurchase ==
  Route("POST /api/purchases", TRUE, TRUE, {"admin", "pharmacist"}, 201, {500},
        [NoWrites EXCEPT !["purchases"] = 1, !["purchase_items"] = 1], <<>>)
\* three categories, two suppliers, four drugs and four batches
InitTestData ==
  Route("POST /api/init-test-data", TRUE, TRUE, {"admin"}, 200, {500},
        [NoWrites EXCEPT !["categories"] = 3, !["suppliers"] = 2, !["drugs"] = 4],
        <<[drugId |-> 1, quantity |-> 100], [drugId |-> 2, quantity |-> 150],
          [drugId |-> 3, quantity |-> 75], [drugId |-> 4, quantity |-> 200]>>)
SetSetting ==
  Route("PUT /api/settings/:key", TRUE, TRUE, {"admin"}, 200, {500},
        WritesTo("settings"), <<>>)

\* Every route that creates, updates or deletes a record, the sale commit
\* apart (it is modelled await by await below).
MutatingRoutes ==
  {Register, ChangePassword, CreateCategory, UpdateCategory, DeleteCategory,
   CreateSupplier, CreateCustomer, CreateDrug, UpdateDrug, DeleteDrug,
   CreateDrugBatch, CreatePurchase, InitTestData, SetSetting}

\* app.post('/api/sales', authenticateToken, async (req, res) => ...)
SalesRouteRestricted ==
  [name |-> "POST /api/sales", auth |-> TRUE, restricted |-> TRUE,
   roles |-> {"admin", "pharmacist"}]
SalesRoute ==
  [name |-> "POST /api/sales", auth |-> TRUE, restricted |-> FALSE, roles |-> {}]

\* ----------------------------------------------------------------- Init
\* What a handler finds in the store when its request arrives.
Snapshot ==
  [drugBatches |-> drugBatches, saleIds |-> { s.id : s \in sales },
   sales |-> sales, saleItems |-> saleItems, tables |-> tables]

Init ==
  /\ drugBatches = [b \in BatchIds |-> [drugId |-> b, quantity |-> InitQty]]
  /\ sales = {}
  /\ saleItems = {}
  /\ salesSeq = 0
  /\ saleItemsSeq = 0
  /\ clock = 0
  /\ pc = [p \in Procs |-> "idle"]
  /\ req = [p \in Procs |-> [token |-> "missing"]]
  /\ saleData = [p \in Procs |-> NoRow]
  /\ newSale = [p \in Procs |-> NoRow]
  /\ idx = [p \in Procs |-> 0]
  /\ items = [p \in Procs |-> <<>>]
  /\ newQty = [p \in Procs |-> 0]
  /\ res = [p \in Procs |-> NoResponse]
  /\ alone = [p \in Procs |-> TRUE]
  /\ updates = [p \in Procs |-> 0]
  /\ tables = [t \in Tables |-> 0]
  /\ calls = 0
  /\ last = NoCall
  /\ pre = [p \in Procs |-> Snapshot]

InFlight(p) == pc[p] \notin {"idle", "done"}

\* ------------------------------------------------------------ responses
ErrorResponse(status) == [status |-> status]

\* amountReceived || totalAmount, amountReceived ? amountReceived - totalAmount : 0
Truthy(v) == v.shape # "undefined" /\ v.val # 0
saleWithItems(sale, its, body) ==
  [status |-> 201, sale |-> sale, items |-> its,
   amountReceived |-> IF Truthy(body.amountReceived)
                        THEN body.amountReceived.val ELSE body.totalAmount.val,
   change |-> IF Truthy(body.amountReceived)
                THEN body.amountReceived.val - body.totalAmount.val ELSE 0]

\* The handler leaves through res.status(...).json(...)
Reply(p, r) ==
  /\ pc' = [pc EXCEPT ![p] = "done"]
  /\ res' = [res EXCEPT ![p] = r]

\* for (const item of items): the handler reaches line i of the cart.  A body
\* without items makes the loop throw; past the last line the handler answers
\* 201; a line that fails insertSaleItemSchema.parse throws; otherwise the
\* handler awaits createSaleItem for line i.
ForItem(p, i, sale, its) ==
  LET body == req[p].body IN
  IF ~body.items.present
    THEN Reply(p, ErrorResponse(500)) /\ idx' = idx
    ELSE IF i > Len(body.items.lines)
      THEN Reply(p, saleWithItems(sale, its, body)) /\ idx' = idx
      ELSE IF ~insertSaleItemSchema(body.items.lines[i])
        THEN Reply(p, ErrorResponse(500)) /\ idx' = [idx EXCEPT ![p] = i]
        ELSE /\ pc' = [pc EXCEPT ![p] = "createSaleItem"]
             /\ idx' = [idx EXCEPT ![p] = i]
             /\ res' = res

\* -------------------------------------------------------------- storage
\* sales.receiptNumber is .unique(): an insert of a taken number is refused
NoUniqueCheck(tbl, d) == FALSE
UniqueViolation(tbl, d) == \E s \in tbl : s.receiptNumber = d.receiptNumber

\* db.insert(sales).values(sale).returning(): the row the database stores
SaleRow(id, d) ==
  [id |-> id, receiptNumber |-> d.receiptNumber, userId |-> d.userId,
   customerName |-> d.customerName, customerPhone |-> d.customerPhone,
   subtotal |-> ToDecimal(d.subtotal.val), taxAmount |-> ToDecimal(d.taxAmount.val),
   discountAmount |-> ToDecimal(d.discountAmount.val),
   totalAmount |-> ToDecimal(d.totalAmount.val),
   paymentMethod |-> d.paymentMethod.val, status |-> d.status]

\* sale_items.sale_id references sales.id, sale_items.drug_batch_id references
\* drug_batches.id: an insert that names no such row is refused
ForeignKeyOnSaleOnly(d) == d.saleId \notin { s.id : s \in sales }
ForeignKeyViolation(d) ==
  \/ d.saleId \notin { s.id : s \in sales }
  \/ d.drugBatchId \notin DOMAIN drugBatches

\* insertSaleItemSchema.parse({saleId: newSale.id, drugBatchId: ..., ...})
SaleItemDataSwapped(sale, item) ==
  [saleId |-> sale.id, drugBatchId |-> item.drugBatchId.val,
   quantity |-> item.quantity.val, unitPrice |-> item.totalPrice.val,
   totalPrice |-> item.unitPrice.val]
SaleItemData(sale, item) ==
  [saleId |-> sale.id, drugBatchId |-> item.drugBatchId.val,
   quantity |-> item.quantity.val, unitPrice |-> item.unitPrice.val,
   totalPrice |-> item.totalPrice.val]

\* db.insert(saleItems).values(saleItem).returning(): the row stored
SaleItemRow(id, d) ==
  [id |-> id, saleId |-> d.saleId, drugBatchId |-> d.drugBatchId,
   quantity |-> d.quantity, unitPrice |-> ToDecimal(d.unitPrice),
   totalPrice |-> ToDecimal(d.totalPrice)]

\* db.select().from(sales).where(eq(sales.id, id)): [sale] or []
getSale(id) ==
  IF \E s \in sales : s.id = id
    THEN [found |-> TRUE, sale |-> CHOOSE s \in sales : s.id = id]
    ELSE [found |-> FALSE, sale |-> NoRow]

\* db.select().from(saleItems).where(eq(saleItems.saleId, saleId))
getSaleItems(saleId) == { i \in saleItems : i.saleId = saleId }

\* db.select().from(drugBatches).where(eq(drugBatches.id, id)): [batch] or []
getDrugBatchStale(id) ==
  IF id \in DOMAIN drugBatches
    THEN [found |-> TRUE, quantity |-> InitQty]
    ELSE [found |-> FALSE, quantity |-> 0]
getDrugBatch(id) ==
  IF id \in DOMAIN drugBatches
    THEN [found |-> TRUE, quantity |-> drugBatches[id].quantity]
    ELSE [found |-> FALSE, quantity |-> 0]

\* db.update(drugBatches).set({quantity}).where(eq(drugBatches.id, id))
updateDrugBatchNoWhere(id, q) ==
  [b \in DOMAIN drugBatches |-> [drugBatches[b] EXCEPT !.quantity = q]]
updateDrugBatchNoRow(id, q) == drugBatches
updateDrugBatchWholeRow(id, q) ==
  IF id \in DOMAIN drugBatches
    THEN [drugBatches EXCEPT ![id] = [drugId |-> 0, quantity |-> q]]
    ELSE drugBatches
updateDrugBatch(id, q) ==
  IF id \in DOMAIN drugBatches
    THEN [drugBatches EXCEPT ![id].quantity = q]
    ELSE drugBatches

\* const { purchase, items } = req.body: the purchase fields pass
\* insertPurchaseSchema.parse and their insert or not (Bad), and items is
\* absent or a list whose entries pass insertPurchaseItemSchema.parse and
\* their insert or not.
PurchaseBodies ==
  { [purchase |-> h, items |-> its] :
      h \in {Ok(1), Bad},
      its \in {Absent} \cup { Present(c) : c \in SeqsUpTo({Ok(1), Bad}, MaxPurchaseItems) } }

\* for (const item of items) { parse; await storage.createPurchaseItem }: the
\* entries the loop stores before it ends or throws, and whether the handler
\* throws at all.
ItemsCreated(its) ==
  IF ~its.present THEN 0
  ELSE IF \A i \in 1..Len(its.lines) : Conforms(its.lines[i]) THEN Len(its.lines)
  ELSE (CHOOSE k \in 1..Len(its.lines) :
          /\ ~Conforms(its.lines[k])
          /\ \A j \in 1..(k - 1) : Conforms(its.lines[j])) - 1
PurchaseThrows(body) ==
  \/ ~Conforms(body.purchase)
  \/ ~body.items.present
  \/ \E i \in 1..Len(body.items.lines) : ~Conforms(body.items.lines[i])

\* storage.createPurchase, then storage.createPurchaseItem once per entry
PurchaseWritesOneItem(body) ==
  IF ~Conforms(body.purchase) THEN NoWrites
  ELSE [NoWrites EXCEPT !["purchases"] = 1, !["purchase_items"] = 1]
PurchaseWrites(body) ==
  IF ~Conforms(body.purchase) THEN NoWrites
  ELSE [NoWrites EXCEPT !["purchases"] = 1,
                        !["purchase_items"] = ItemsCreated(body.items)]

\* ------------------------------------------------------------- handlers
\* authenticateToken: 401 without a token, 403 with one jwt.verify rejects,
\* 0 when next() runs
authenticateToken(token) ==
  IF token = "missing" THEN 401 ELSE IF token = "invalid" THEN 403 ELSE 0

\* requireRole(roles): 403 unless the role of req.user is among roles
requireRole(roles, user) == IF user.role \in roles THEN 0 ELSE 403

\* The middleware chain of a route: the status it answers with, or 0 when the
\* handler runs
Gate(route, token) ==
  IF route.auth /\ authenticateToken(token) # 0 THEN authenticateToken(token)
  ELSE IF route.restricted THEN requireRole(route.roles, TokenUser(token))
  ELSE 0

\* The object handed to insertSaleSchema.parse
SaleData(body, t) ==
  [receiptNumber |-> ReceiptNumber(t), subtotal |-> body.subtotal,
   taxAmount |-> body.taxAmount, discountAmount |-> Ok(0),
   totalAmount |-> body.totalAmount, paymentMethod |-> body.paymentMethod,
   status |-> "completed", userId |-> User.id,
   customerName |-> body.customerName, customerPhone |-> body.customerPhone]

\* POST /api/sales up to its first await: the middleware, the receipt number,
\* the parse of the header, the call of createSale
Request(p, token, body) ==
  /\ pc[p] = "idle"
  /\ UNCHANGED <<drugBatches, sales, saleItems, salesSeq, saleItemsSeq,
                 newSale, idx, items, newQty, updates>>
  /\ UNCHANGED apiVars
  /\ IF Gate(SalesRoute, token) # 0
       THEN /\ Reply(p, ErrorResponse(Gate(SalesRoute, token)))
            /\ req' = [req EXCEPT ![p] = [token |-> token]]
            /\ UNCHANGED <<clock, saleData, pre, alone>>
       ELSE \E t \in clock..MaxClock :
            /\ clock' = t
            /\ req' = [req EXCEPT ![p] = [token |-> token, body |-> body]]
            /\ pre' = [pre EXCEPT ![p] = Snapshot]
            /\ IF ~insertSaleSchema(SaleData(body, t))
                 THEN /\ Reply(p, ErrorResponse(500))
                      /\ UNCHANGED <<saleData, alone>>
                 ELSE /\ pc' = [pc EXCEPT ![p] = "createSale"]
                      /\ res' = res
                      /\ saleData' = [saleData EXCEPT ![p] = SaleData(body, t)]
                      /\ alone' = [q \in Procs |->
                                     IF q = p THEN \A o \in Procs \ {p} : ~InFlight(o)
                                     ELSE alone[q] /\ ~InFlight(q)]

\* await storage.createSale(saleData), then the loop up to its first await
CreateSale(p) ==
  /\ pc[p] = "createSale"
  /\ salesSeq' = salesSeq + 1
  /\ UNCHANGED <<drugBatches, saleItems, saleItemsSeq, clock, req, saleData,
                 items, newQty, pre, alone, updates>>
  /\ UNCHANGED apiVars
  /\ IF UniqueViolation(sales, saleData[p])
       THEN /\ Reply(p, ErrorResponse(500))
            /\ UNCHANGED <<sales, newSale, idx>>
       ELSE LET row == SaleRow(salesSeq + 1, saleData[p]) IN
            /\ sales' = sales \cup {row}
            /\ newSale' = [newSale EXCEPT ![p] = row]
            /\ ForItem(p, 1, row, <<>>)

\* saleItems.push(createdItem): the array of created items grows at its end
unshift(its, row) == <<row>> \o its
push(its, row) == Append(its, row)

\* await storage.createSaleItem(saleItemData); saleItems.push(createdItem)
CreateSaleItem(p) ==
  LET item == req[p].body.items.lines[idx[p]]
      d == SaleItemData(newSale[p], item)
      row == SaleItemRow(saleItemsSeq + 1, d)
  IN
  /\ pc[p] = "createSaleItem"
  /\ saleItemsSeq' = saleItemsSeq + 1
  /\ UNCHANGED <<drugBatches, sales, salesSeq, clock, req, saleData, newSale,
                 idx, newQty, pre, alone, updates>>
  /\ UNCHANGED apiVars
  /\ IF ForeignKeyViolation(d)
       THEN /\ Reply(p, ErrorResponse(500))
            /\ UNCHANGED <<saleItems, items>>
       ELSE /\ saleItems' = saleItems \cup {row}
            /\ items' = [items EXCEPT ![p] = push(items[p], row)]
            /\ pc' = [pc EXCEPT ![p] = "getDrugBatch"]
            /\ res' = res

\* const batch = await storage.getDrugBatch(item.drugBatchId); if (batch) the
\* handler computes batch.quantity - item.quantity and awaits updateDrugBatch
GetDrugBatch(p) ==
  LET item == req[p].body.items.lines[idx[p]]
      batch == getDrugBatch(item.drugBatchId.val)
  IN
  /\ pc[p] = "getDrugBatch"
  /\ UNCHANGED <<drugBatches, sales, saleItems, salesSeq, saleItemsSeq, clock,
                 req, saleData, newSale, items, pre, alone, updates>>
  /\ UNCHANGED apiVars
  /\ IF batch.found
       THEN /\ newQty' = [newQty EXCEPT ![p] = batch.quantity - item.quantity.val]
            /\ pc' = [pc EXCEPT ![p] = "updateDrugBatch"]
            /\ UNCHANGED <<idx, res>>
       ELSE /\ newQty' = newQty
            /\ ForItem(p, idx[p] + 1, newSale[p], items[p])

\* await storage.updateDrugBatch(item.drugBatchId, {quantity}), then the loop
\* up to its next await or the 201 response
UpdateDrugBatch(p) ==
  LET item == req[p].body.items.lines[idx[p]] IN
  /\ pc[p] = "updateDrugBatch"
  /\ drugBatches' = updateDrugBatch(item.drugBatchId.val, newQty[p])
  /\ updates' = [updates EXCEPT ![p] = updates[p] + 1]
  /\ UNCHANGED <<sales, saleItems, salesSeq, saleItemsSeq, clock, req, saleData,
                 newSale, items, newQty, pre, alone>>
  /\ UNCHANGED apiVars
  /\ ForItem(p, idx[p] + 1, newSale[p], items[p])

\* A call of a route other than the sale commit, as one step: the middleware
\* chain, then the handler, which ends with its success status and its writes
\* or with one of its failure statuses and none (the body fails its schema,
\* the database refuses the statement, an early return is taken).
Call(route, token, outcome) ==
  LET gate == Gate(route, token)
      served == gate = 0 /\ outcome = route.success
  IN
  /\ calls < MaxCalls
  /\ calls' = calls + 1
  /\ last' = [route |-> route.name, token |-> token,
              status |-> IF gate # 0 THEN gate ELSE outcome, supplied |-> 0]
  /\ tables' = IF served THEN [t \in Tables |-> tables[t] + route.writes[t]]
               ELSE tables
  /\ drugBatches' = IF served THEN drugBatches \o route.batches ELSE drugBatches
  /\ UNCHANGED <<sales, saleItems, salesSeq, saleItemsSeq, clock, pc, req,
                 saleData, newSale, idx, items, newQty, res, pre, alone, updates>>

ApiCall ==
  \E route \in MutatingRoutes \ {CreatePurchase}, token \in ApiTokens :
    \E outcome \in {route.success} \cup route.fail : Call(route, token, outcome)

\* ------------------------------------------------------- specifications
\* A request arrives at an idle handler.
RaceRequest(p) ==
  /\ pc[p] = "idle"
  /\ \E token \in Tokens, body \in RaceBodies : Request(p, token, body)

CartRequest(p) ==
  /\ pc[p] = "idle"
  /\ \E token \in Tokens,
        body \in CartBodies \cup BadHeaderBodies \cup PaymentBodies \cup DiscountBodies :
       Request(p, token, body)

\* app.post('/api/purchases', authenticateToken, requireRole(['admin',
\* 'pharmacist']), ...), as one step: the middleware chain, then createPurchase
\* and the loop over the items; 201 when nothing throws, 500 from the catch,
\* with what was stored before the throw left in place.
PostPurchase ==
  \E token \in ApiTokens, body \in PurchaseBodies :
    LET gate == Gate(CreatePurchase, token) IN
    /\ calls < MaxCalls
    /\ calls' = calls + 1
    /\ last' = [route |-> CreatePurchase.name, token |-> token,
                status |-> IF gate # 0 THEN gate
                           ELSE IF PurchaseThrows(body) THEN 500
                           ELSE CreatePurchase.success,
                supplied |-> Len(body.items.lines)]
    /\ tables' = IF gate = 0
                   THEN [t \in Tables |-> tables[t] + PurchaseWrites(body)[t]]
                   ELSE tables
    /\ UNCHANGED <<drugBatches, sales, saleItems, salesSeq, saleItemsSeq, clock,
                   pc, req, saleData, newSale, idx, items, newQty, res, pre,
                   alone, updates>>

\* Two handlers that may overlap, with carts on one shared batch.
Next ==
  \/ \E p \in Procs : RaceRequest(p)
  \/ \E p \in Procs : CreateSale(p)
  \/ \E p \in Procs : CreateSaleItem(p)
  \/ \E p \in Procs : GetDrugBatch(p)
  \/ \E p \in Procs : UpdateDrugBatch(p)

Spec == Init /\ [][Next]_vars

\* One handler, with every cart and header the caller can send.
First == CHOOSE p \in Procs : TRUE
NextCart ==
  \/ CartRequest(First)
  \/ CreateSale(First)
  \/ CreateSaleItem(First)
  \/ GetDrugBatch(First)
  \/ UpdateDrugBatch(First)

SpecCart == Init /\ [][NextCart]_vars

\* Bodies of the sale commits that run next to the other routes: one line on
\* the shared batch, with quantity 1 or a quantity below 1.
ApiBodies ==
  { Body(Present(<<l>>), Ok(120), Ok(0), Ok(120), Ok("cash"), NoValue) :
      l \in { Line(Ok(SharedBatch), Ok(1), Ok(10), Ok(10)) } \cup NonPositiveLines }

ApiSaleRequest(p) ==
  /\ pc[p] = "idle"
  /\ \E token \in ApiTokens, body \in ApiBodies : Request(p, token, body)

\* Every mutating route, callers of every role, and one sale commit.
NextApi ==
  \/ ApiCall
  \/ PostPurchase
  \/ ApiSaleRequest(First)
  \/ CreateSale(First)
  \/ CreateSaleItem(First)
  \/ GetDrugBatch(First)
  \/ UpdateDrugBatch(First)

SpecApi == Init /\ [][NextApi]_vars

\* ----------------------------------------------------------- properties
Done(p) == pc[p] = "done"
HasBody(p) == pc[p] # "idle" /\ Gate(SalesRoute, req[p].token) = 0
Succeeded(p) == Done(p) /\ res[p].status = 201
Cart(p) == req[p].body.items.lines

\* The sales and sale items a handler's invocation has persisted.
SalesOf(p) == { s \in sales : s.id = newSale[p].id }
ItemsOf(p) == { i \in saleItems : i.saleId = newSale[p].id }

\* Lines of a cart that name batch b, and the quantity they ask for in all.
LinesOn(c, b) == { i \in 1..Len(c) : c[i].drugBatchId.val = b }
RECURSIVE SumQty(_, _)
SumQty(c, I) ==
  IF I = {} THEN 0
  ELSE LET i == CHOOSE j \in I : TRUE IN c[i].quantity.val + SumQty(c, I \ {i})
Dec(p, b) == SumQty(Cart(p), LinesOn(Cart(p), b))

\* Handler p ran with no other commit in flight and none has run since, so
\* the difference between pre[p] and the store is p's own doing.
RanLast(p) ==
  /\ alone[p]
  /\ \A q \in Procs \ {p} :
       \/ pc[q] = "idle"
       \/ Done(q) /\ ~HasBody(q)
       \/ Done(q) /\ newSale[q].id \in pre[p].saleIds \cup {NoRow.id}

\* A cart whose every line passes insertSaleItemSchema.parse.
Conforming(c) == \A i \in 1..Len(c) : insertSaleItemSchema(c[i])

\* C1: two commits that decrement the same batch by n1 and n2, with the initial
\* quantity at least n1 + n2, leave it at initial - n1 - n2 when both succeed.
C1_NoLostUpdate ==
  \A p \in Procs, q \in Procs, b \in BatchIds :
    ( /\ p # q
      /\ Succeeded(p) /\ Succeeded(q)
      /\ Dec(p, b) > 0 /\ Dec(q, b) > 0
      /\ InitQty >= Dec(p, b) + Dec(q, b) )
    => drugBatches[b].quantity = InitQty - Dec(p, b) - Dec(q, b)

\* C2: two commits that decrement the same batch by n1 and n2, with the initial
\* quantity below n1 + n2, never both succeed: exactly one of them fails.
C2_ExactlyOneFails ==
  \A p \in Procs, q \in Procs, b \in BatchIds :
    ( /\ p # q
      /\ Done(p) /\ Done(q) /\ HasBody(p) /\ HasBody(q)
      /\ Conforming(Cart(p)) /\ Conforming(Cart(q))
      /\ Dec(p, b) > 0 /\ Dec(q, b) > 0
      /\ InitQty < Dec(p, b) + Dec(q, b) )
    => (res[p].status = 201) # (res[q].status = 201)

\* C3: the quantity of every batch is at least 0 in every reachable state.
C3_QuantityNonNegative ==
  \A b \in DOMAIN drugBatches : drugBatches[b].quantity >= 0

\* C4: when a line of the cart names a batch that does not exist, the ended
\* invocation has left no Sale, no SaleItem and no quantity change behind.
C4_MissingBatchAtomic ==
  \A p \in Procs :
    ( /\ Done(p) /\ HasBody(p) /\ RanLast(p)
      /\ insertSaleSchema(SaleData(req[p].body, 0))
      /\ Conforming(Cart(p))
      /\ \E i \in 1..Len(Cart(p)) : Cart(p)[i].drugBatchId.val \notin DOMAIN drugBatches )
    => /\ SalesOf(p) = {}
       /\ ItemsOf(p) = {}
       /\ drugBatches = pre[p].drugBatches

\* C5: a commit that asks a batch for more than it has on hand fails entirely:
\* the quantity is unchanged and no Sale is persisted.
C5_NoOversell ==
  \A p \in Procs :
    ( /\ Done(p) /\ HasBody(p) /\ RanLast(p)
      /\ insertSaleSchema(SaleData(req[p].body, 0))
      /\ Conforming(Cart(p))
      /\ \A i \in 1..Len(Cart(p)) : Cart(p)[i].drugBatchId.val \in DOMAIN drugBatches
      /\ \E b \in BatchIds : Dec(p, b) > pre[p].drugBatches[b].quantity )
    => /\ res[p].status # 201
       /\ SalesOf(p) = {}
       /\ drugBatches = pre[p].drugBatches

\* A valid cart: not empty, every line conforming, naming an existing batch
\* and asking for a positive quantity.
ValidCart(c) ==
  /\ Len(c) > 0
  /\ Conforming(c)
  /\ \A i \in 1..Len(c) :
       c[i].drugBatchId.val \in DOMAIN drugBatches /\ c[i].quantity.val > 0

\* C6: after a valid cart is committed with no other commit in flight, every
\* batch that exactly one line names has its quantity from before the commit
\* less that line's quantity.
C6_DecrementOncePerLine ==
  \A p \in Procs :
    (Succeeded(p) /\ RanLast(p) /\ ValidCart(Cart(p)))
    => \A i \in 1..Len(Cart(p)) :
         LET b == Cart(p)[i].drugBatchId.val IN
         LinesOn(Cart(p), b) = {i}
         => drugBatches[b].quantity
              = pre[p].drugBatches[b].quantity - Cart(p)[i].quantity.val

\* A committed cart of two lines on two different batches.
C6_Witness ==
  \E p \in Procs :
    /\ Succeeded(p) /\ RanLast(p) /\ ValidCart(Cart(p))
    /\ Len(Cart(p)) = 2
    /\ Cart(p)[1].drugBatchId.val # Cart(p)[2].drugBatchId.val
    /\ \A i \in 1..2 :
         drugBatches[Cart(p)[i].drugBatchId.val].quantity < InitQty

\* An amount with at most two fractional digits (v in thousandths).
TwoDecimals(v) == v % 10 = 0

\* The stored item of line i has the line's batch and quantity.
StoresLine(p, i) ==
  /\ items[p][i] \in ItemsOf(p)
  /\ items[p][i].drugBatchId = Cart(p)[i].drugBatchId.val
  /\ items[p][i].quantity = Cart(p)[i].quantity.val

\* The stored item of line i has the line's prices, digit for digit.
StoresPrices(p, i) ==
  /\ items[p][i].unitPrice * 10 = Cart(p)[i].unitPrice.val
  /\ items[p][i].totalPrice * 10 = Cart(p)[i].totalPrice.val

\* totalPrice = quantity x unitPrice, as supplied and as stored.
SuppliedProduct(l) == l.totalPrice.val = l.quantity.val * l.unitPrice.val
StoredProduct(r) == r.totalPrice = r.quantity * r.unitPrice

\* C7 as stated: a successful commit stores one SaleItem per cart line, each
\* with the line's drugBatchId, quantity, unitPrice and totalPrice unchanged,
\* so totalPrice = quantity x unitPrice is kept.
C7_ItemsStoredUnchanged ==
  \A p \in Procs :
    Succeeded(p)
    => /\ Cardinality(ItemsOf(p)) = Len(Cart(p))
       /\ Len(items[p]) = Len(Cart(p))
       /\ \A i \in 1..Len(Cart(p)) :
            /\ StoresLine(p, i)
            /\ StoresPrices(p, i)
            /\ SuppliedProduct(Cart(p)[i]) => StoredProduct(items[p][i])

\* C7 amended: a successful commit stores one SaleItem per cart line, each
\* with the line's drugBatchId and quantity unchanged and its unitPrice and
\* totalPrice rounded to two fractional digits; prices supplied with at most
\* two fractional digits are stored unchanged and keep
\* totalPrice = quantity x unitPrice.
C7_ItemsStoredRounded ==
  \A p \in Procs :
    Succeeded(p)
    => /\ Cardinality(ItemsOf(p)) = Len(Cart(p))
       /\ Len(items[p]) = Len(Cart(p))
       /\ \A i \in 1..Len(Cart(p)) :
            LET l == Cart(p)[i]
                r == items[p][i]
                exact == TwoDecimals(l.unitPrice.val) /\ TwoDecimals(l.totalPrice.val)
            IN
            /\ StoresLine(p, i)
            /\ r.unitPrice * 10 - l.unitPrice.val \in -5..5
            /\ r.totalPrice * 10 - l.totalPrice.val \in -5..5
            /\ exact => StoresPrices(p, i)
            /\ (exact /\ SuppliedProduct(l)) => StoredProduct(r)

\* A committed cart of two lines, one of them with exact prices and a
\* quantity above one.
C7_Witness ==
  \E p \in Procs :
    /\ Succeeded(p)
    /\ Len(Cart(p)) = 2
    /\ Cardinality(ItemsOf(p)) = 2
    /\ \E i \in 1..2 :
         /\ TwoDecimals(Cart(p)[i].unitPrice.val)
         /\ Cart(p)[i].quantity.val > 1
         /\ SuppliedProduct(Cart(p)[i])
    /\ \E i \in 1..2 : ~TwoDecimals(Cart(p)[i].unitPrice.val)

\* A body with a field of the wrong shape, in the header or in a cart line.
InvalidShape(body) ==
  \/ ~insertSaleSchema(SaleData(body, 0))
  \/ body.items.present /\ ~Conforming(body.items.lines)

\* C8: a request with an invalid shape in any field, a field of any cart line
\* included, fails with nothing written: no Sale, no SaleItem, no batch update.
C8_ValidationBeforeWrites ==
  \A p \in Procs :
    (Done(p) /\ HasBody(p) /\ RanLast(p) /\ InvalidShape(req[p].body))
    => /\ res[p].status # 201
       /\ SalesOf(p) = {}
       /\ ItemsOf(p) = {}
       /\ drugBatches = pre[p].drugBatches

\* C9: a request replayed after it succeeded does not decrement again: the
\* quantities after the replay are those after the first commit.
C9_ReplayIdempotent ==
  \A p \in Procs, q \in Procs :
    ( /\ p # q
      /\ Succeeded(q) /\ newSale[q].id \in pre[p].saleIds
      /\ Done(p) /\ HasBody(p) /\ RanLast(p)
      /\ req[p].body = req[q].body )
    => drugBatches = pre[p].drugBatches

\* C10: any two distinct persisted Sales have different receipt numbers.
C10_ReceiptNumbersUnique ==
  \A s \in sales, t \in sales :
    s.id # t.id => s.receiptNumber # t.receiptNumber

\* Two commits drew the same receipt number; one persisted its Sale and the
\* other was refused.
C10_Witness ==
  \E p \in Procs, q \in Procs :
    /\ p # q
    /\ Done(p) /\ Done(q) /\ HasBody(p) /\ HasBody(q)
    /\ saleData[p].receiptNumber = saleData[q].receiptNumber
    /\ Succeeded(p) /\ res[q].status = 500
    /\ Cardinality(sales) = 1

\* C11: the response of a successful commit has amountReceived = totalAmount
\* and change = 0 when the request has no amountReceived, and the supplied
\* amountReceived with change = amountReceived - totalAmount when it has one,
\* whatever the supplied value (zero and values below totalAmount included).
C11_PaymentFields ==
  \A p \in Procs :
    Succeeded(p)
    => LET recv == req[p].body.amountReceived
           total == req[p].body.totalAmount.val
       IN IF recv.shape = "undefined"
            THEN res[p].amountReceived = total /\ res[p].change = 0
            ELSE res[p].amountReceived = recv.val /\ res[p].change = recv.val - total

\* A cart without lines: items is [] or the body has no items.
EmptyCart(body) == ~body.items.present \/ Len(body.items.lines) = 0

\* C12: a commit with an empty cart (items = [] or items missing) is rejected
\* and persists nothing: no Sale header exists for a cart with zero lines.
C12_EmptyCartRejected ==
  \A p \in Procs :
    (Done(p) /\ HasBody(p) /\ EmptyCart(req[p].body))
    => /\ res[p].status # 201
       /\ SalesOf(p) = {}
       /\ ItemsOf(p) = {}

\* A cart with a line whose quantity is an integer below one.
HasNonPositiveLine(c) ==
  \E i \in 1..Len(c) : Conforms(c[i].quantity) /\ c[i].quantity.val <= 0

\* C13: a line with quantity 0 or a negative quantity is rejected, so no sale
\* commit leaves the quantity of a batch higher than it was before the commit.
C13_PositiveQuantities ==
  \A p \in Procs :
    (Done(p) /\ HasBody(p) /\ RanLast(p) /\ req[p].body.items.present)
    => /\ HasNonPositiveLine(Cart(p)) => res[p].status # 201
       /\ \A b \in DOMAIN pre[p].drugBatches :
            drugBatches[b].quantity <= pre[p].drugBatches[b].quantity

\* Lines of a cart that name a batch drug_batches has no row for.
MissingLines(c) ==
  { i \in 1..Len(c) : Conforms(c[i].drugBatchId)
                        /\ c[i].drugBatchId.val \notin DOMAIN drugBatches }

\* A request with a conforming header whose cart has a line naming a missing
\* batch, that line and every line before it conforming; k is that line.
FirstMissing(c) == CHOOSE k \in MissingLines(c) : \A j \in MissingLines(c) : k <= j
MissingBatchCase(p) ==
  /\ Done(p) /\ HasBody(p) /\ RanLast(p)
  /\ insertSaleSchema(SaleData(req[p].body, 0))
  /\ req[p].body.items.present
  /\ MissingLines(Cart(p)) # {}
  /\ Conforming(SubSeq(Cart(p), 1, FirstMissing(Cart(p))))

\* C14 as stated: when a cart line names a batch that does not exist, the
\* commit still creates the SaleItem of that line, skips its decrement, goes
\* on with the remaining lines and answers with success.
C14_MissingBatchSkipped ==
  \A p \in Procs :
    (MissingBatchCase(p) /\ Conforming(Cart(p)))
    => /\ Succeeded(p)
       /\ Cardinality(ItemsOf(p)) = Len(Cart(p))
       /\ \A b \in DOMAIN pre[p].drugBatches :
            drugBatches[b].quantity = pre[p].drugBatches[b].quantity - Dec(p, b)

\* C14 amended: when a cart line names a batch that does not exist, the
\* insert of its SaleItem is refused (sale_items.drug_batch_id references
\* drug_batches.id), the commit stops there and answers 500: no SaleItem exists
\* for that line or a later one, while the Sale header and the items and
\* decrements of the lines before it stay persisted.
C14_MissingBatchRefused ==
  \A p \in Procs :
    MissingBatchCase(p)
    => LET c == Cart(p)
           k == FirstMissing(c)
           before == SubSeq(c, 1, k - 1)
       IN /\ res[p].status = 500
          /\ Cardinality(SalesOf(p)) = 1
          /\ Len(items[p]) = k - 1
          /\ ItemsOf(p) = { items[p][i] : i \in 1..(k - 1) }
          /\ \A i \in 1..(k - 1) : StoresLine(p, i)
          /\ \A r \in saleItems : r.drugBatchId \in DOMAIN drugBatches
          /\ \A b \in DOMAIN pre[p].drugBatches :
               drugBatches[b].quantity
                 = pre[p].drugBatches[b].quantity - SumQty(before, LinesOn(before, b))

\* A cart of two lines, the first on an existing batch and the second on a
\* missing one: the first line's item and decrement are in the store and the
\* commit has answered 500.
C14_Witness ==
  \E p \in Procs :
    /\ MissingBatchCase(p)
    /\ Len(Cart(p)) = 2
    /\ FirstMissing(Cart(p)) = 2
    /\ Cart(p)[1].quantity.val > 0
    /\ Cardinality(ItemsOf(p)) = 1
    /\ drugBatches[Cart(p)[1].drugBatchId.val].quantity < InitQty
    /\ res[p].status = 500

\* C15: a Sale and its SaleItems become visible together: at no moment of a
\* commit does getSale find the Sale while getSaleItems returns fewer items
\* than the cart has lines.
C15_VisibleTogether ==
  \A p \in Procs :
    (HasBody(p) /\ req[p].body.items.present /\ getSale(newSale[p].id).found)
    => Cardinality(getSaleItems(newSale[p].id)) >= Len(Cart(p))

\* C16: every Sale header a commit persists has status 'completed', and its
\* discountAmount is the discount the request supplied, or zero when the
\* request supplied none.
C16_StatusAndDiscount ==
  \A p \in Procs : \A s \in SalesOf(p) :
    LET supplied == req[p].body.discountAmount IN
    /\ s.status = "completed"
    /\ s.discountAmount = IF supplied.shape = "undefined" THEN 0
                          ELSE ToDecimal(supplied.val)

\* A step that writes nothing to any table.
StoreUnchanged == UNCHANGED <<drugBatches, sales, saleItems, tables>>

\* A step in which handler p takes up a request.
Arrives(p) == pc[p] = "idle" /\ pc'[p] # "idle"

\* C17: a call of a mutating endpoint (user registration included) whose
\* request carries no valid bearer token writes nothing to the store.
C17_WritesNeedIdentity ==
  [][ /\ (calls' # calls /\ authenticateToken(last'.token) # 0) => StoreUnchanged
      /\ \A p \in Procs :
           (Arrives(p) /\ authenticateToken(req'[p].token) # 0) => StoreUnchanged
    ]_vars

\* The sale commit answers with the status and has run none of the handler:
\* no receipt number drawn, nothing parsed, no storage call made.
RejectedWith(p, status) ==
  /\ pc'[p] = "done"
  /\ res'[p] = ErrorResponse(status)
  /\ StoreUnchanged
  /\ UNCHANGED <<salesSeq, saleItemsSeq, clock, saleData, newSale, items, updates>>

\* C18: the sale commit is gated by authentication only: a request without a
\* token is answered 401 and one with an invalid token 403, before any
\* business logic or storage call; a request with a valid token runs the
\* workflow whatever the caller's role (admin, pharmacist or cashier).
C18_SalesGatedByAuthOnly ==
  [][ \A p \in Procs :
        Arrives(p)
        => LET token == req'[p].token IN
           /\ token = "missing" => RejectedWith(p, 401)
           /\ token = "invalid" => RejectedWith(p, 403)
           /\ token \notin {"missing", "invalid"}
              => /\ TokenUser(token).role \in Roles
                 /\ res'[p].status \notin {401, 403}
                 /\ IF insertSaleSchema(SaleData(req'[p].body, clock'))
                      THEN pc'[p] = "createSale"
                           /\ saleData'[p] = SaleData(req'[p].body, clock')
                      ELSE pc'[p] = "done" /\ res'[p].status = 500
    ]_vars

\* A cashier's token has committed a sale, and the same token was answered 403
\* by a route that requireRole guards.
C18_Witness ==
  \E p \in Procs :
    /\ Succeeded(p)
    /\ req[p].token = "cashier"
    /\ SalesOf(p) # {}
    /\ last.token = "cashier" /\ last.status = 403

\* C19: the quantity of an existing batch changes only in a sale commit, which
\* lowers it, or in a purchase receipt, which raises it; no other operation
\* of the API changes it.
C19_QuantityFrame ==
  [][ \A b \in DOMAIN drugBatches :
        /\ b \in DOMAIN drugBatches'
        /\ drugBatches'[b].quantity # drugBatches[b].quantity
           => \/ /\ \E p \in Procs : pc[p] = "updateDrugBatch" /\ pc'[p] # pc[p]
                 /\ drugBatches'[b].quantity < drugBatches[b].quantity
              \/ /\ calls' # calls /\ last'.route = CreatePurchase.name
                 /\ drugBatches'[b].quantity > drugBatches[b].quantity
    ]_vars

\* C20: a sale commit with N cart lines writes exactly one Sale row, N
\* SaleItem rows and at most N DrugBatch updates (a commit that ends with an
\* error has written no more than that), and leaves everything else as it
\* was: the batches its cart does not name, the fields other than quantity of
\* those it names, the Sales and SaleItems stored before it, and every other
\* table.
C20_WritesOfACommit ==
  \A p \in Procs :
    (Done(p) /\ HasBody(p) /\ RanLast(p))
    => LET n == Len(Cart(p))
           newSales == sales \ pre[p].sales
           newItems == saleItems \ pre[p].saleItems
       IN
       /\ IF Succeeded(p)
            THEN Cardinality(newSales) = 1 /\ Cardinality(newItems) = n
            ELSE Cardinality(newSales) <= 1 /\ Cardinality(newItems) <= n
       /\ newSales = SalesOf(p)
       /\ newItems = ItemsOf(p)
       /\ updates[p] <= n
       /\ pre[p].sales \subseteq sales
       /\ pre[p].saleItems \subseteq saleItems
       /\ DOMAIN drugBatches = DOMAIN pre[p].drugBatches
       /\ \A b \in DOMAIN drugBatches :
            /\ drugBatches[b].drugId = pre[p].drugBatches[b].drugId
            /\ LinesOn(Cart(p), b) = {} => drugBatches[b] = pre[p].drugBatches[b]
       /\ tables = pre[p].tables

\* A commit of a cart with a line has succeeded after another commit's Sale
\* and SaleItem were in the store, and has made an update.
C20_Witness ==
  \E p \in Procs :
    /\ Succeeded(p) /\ RanLast(p)
    /\ Len(Cart(p)) >= 1
    /\ updates[p] = Len(Cart(p))
    /\ pre[p].sales # {} /\ pre[p].saleItems # {}
    /\ Cardinality(sales) = 2

\* Lines 1..k of handler p's cart are through all three of their steps: each
\* has its SaleItem stored, in cart order and with ascending ids, and its
\* update of the batch made.
LinesDone(p, k) ==
  /\ Len(items[p]) = k
  /\ updates[p] = k
  /\ \A i \in 1..k : StoresLine(p, i)
  /\ \A i \in 1..k, j \in 1..k : i < j => items[p][i].id < items[p][j].id
  /\ ItemsOf(p) = { items[p][i] : i \in 1..k }

\* C21: within one sale commit the cart lines are processed strictly in the
\* order supplied: for line i the SaleItem is persisted, then the batch is
\* read, then the decremented quantity is written, and all three are over
\* before the SaleItem of line i + 1 is persisted; the Sale header is persisted
\* before any SaleItem, and the returned items array is in cart order.
C21_LinesInOrder ==
  \A p \in Procs :
    (HasBody(p) /\ req[p].body.items.present)
    => LET i == idx[p] IN
       /\ ItemsOf(p) # {} => SalesOf(p) # {}
       /\ pc[p] = "createSale" => newSale[p] = NoRow /\ items[p] = <<>>
       /\ pc[p] = "createSaleItem" => SalesOf(p) # {} /\ LinesDone(p, i - 1)
       /\ pc[p] = "getDrugBatch"
          => /\ Len(items[p]) = i /\ StoresLine(p, i) /\ updates[p] = i - 1
             /\ \A j \in 1..(i - 1) : StoresLine(p, j) /\ items[p][j].id < items[p][i].id
       /\ pc[p] = "updateDrugBatch"
          => /\ Len(items[p]) = i /\ StoresLine(p, i) /\ updates[p] = i - 1
             /\ newQty[p] = drugBatches[Cart(p)[i].drugBatchId.val].quantity
                             - Cart(p)[i].quantity.val
                \/ ~RanLast(p)
       /\ Succeeded(p)
          => /\ LinesDone(p, Len(Cart(p)))
             /\ res[p].items = items[p]
             /\ \A j \in 1..Len(Cart(p)) :
                  res[p].items[j].drugBatchId = Cart(p)[j].drugBatchId.val
                  /\ res[p].items[j].quantity = Cart(p)[j].quantity.val

\* The handler is about to persist the SaleItem of line 2 of a cart whose two
\* lines differ: line 1 has its item stored and its decrement written.
C21_Witness ==
  \E p \in Procs :
    /\ HasBody(p) /\ pc[p] = "createSaleItem" /\ idx[p] = 2
    /\ Cart(p)[1] # Cart(p)[2]
    /\ Len(items[p]) = 1 /\ updates[p] = 1
    /\ drugBatches[Cart(p)[1].drugBatchId.val].quantity
         = InitQty - Cart(p)[1].quantity.val

\* Lines of a cart at which the loop throws: the line fails
\* insertSaleItemSchema.parse, or its insert is refused by the database.
ThrowingLines(c) ==
  { i \in 1..Len(c) : ~insertSaleItemSchema(c[i]) } \cup MissingLines(c)
FirstThrowing(c) ==
  CHOOSE k \in ThrowingLines(c) : \A j \in ThrowingLines(c) : k <= j

\* A finished commit whose header was persisted and whose loop threw at a line.
FailedAtLine(p) ==
  /\ Done(p) /\ HasBody(p) /\ RanLast(p)
  /\ insertSaleSchema(SaleData(req[p].body, 0))
  /\ req[p].body.items.present
  /\ ThrowingLines(Cart(p)) # {}

\* C22: when the commit fails while processing cart line k, after the Sale
\* header and lines 1..k-1 were written, the caller receives the 500 error
\* response while the Sale, the SaleItems already created and the decrements
\* already applied remain persisted: the Sale has fewer decremented lines than
\* the cart has lines.
C22_PartialFailure ==
  \A p \in Procs :
    FailedAtLine(p)
    => LET c == Cart(p)
           k == FirstThrowing(c)
           before == SubSeq(c, 1, k - 1)
       IN /\ res[p] = ErrorResponse(500)
          /\ getSale(newSale[p].id).found
          /\ getSale(newSale[p].id).sale.receiptNumber = saleData[p].receiptNumber
          /\ LinesDone(p, k - 1)
          /\ getSaleItems(newSale[p].id) = { items[p][i] : i \in 1..(k - 1) }
          /\ updates[p] < Len(c)
          /\ \A b \in DOMAIN pre[p].drugBatches :
               drugBatches[b].quantity
                 = pre[p].drugBatches[b].quantity - SumQty(before, LinesOn(before, b))

\* The insert of the second of two lines was refused: the caller has the 500
\* response, and the Sale, one SaleItem and one decrement are in the store.
C22_Witness ==
  \E p \in Procs :
    /\ FailedAtLine(p)
    /\ Len(Cart(p)) = 2
    /\ insertSaleItemSchema(Cart(p)[2])
    /\ ForeignKeyViolation(SaleItemData(newSale[p], Cart(p)[2]))
    /\ res[p].status = 500
    /\ getSale(newSale[p].id).found
    /\ Cardinality(getSaleItems(newSale[p].id)) = 1
    /\ updates[p] = 1
    /\ \E b \in DOMAIN drugBatches : drugBatches[b].quantity # InitQty

\* Handler p has made its createSale call; two handlers whose calls carried
\* the same generated receipt number.
PastCreateSale(p) ==
  HasBody(p) /\ saleData[p] # NoRow /\ pc[p] \notin {"idle", "createSale"}
Collide(p, q) ==
  /\ p # q
  /\ PastCreateSale(p) /\ PastCreateSale(q)
  /\ saleData[p].receiptNumber = saleData[q].receiptNumber

\* C23: when two sale commits generate the same receipt number, at most one
\* of them persists a Sale; the other fails at createSale on the unique
\* constraint, persists no Sale, no SaleItem and no DrugBatch update, and
\* returns the 500 error response; it makes no second createSale call with a
\* fresh number.
C23_ReceiptCollision ==
  \A p \in Procs, q \in Procs :
    Collide(p, q)
    => /\ ~(SalesOf(p) # {} /\ SalesOf(q) # {})
       /\ Cardinality({ s \in sales : s.receiptNumber = saleData[p].receiptNumber }) = 1
       /\ SalesOf(p) # {}
          => /\ Done(q)
             /\ res[q] = ErrorResponse(500)
             /\ newSale[q] = NoRow
             /\ items[q] = <<>>
             /\ updates[q] = 0
             /\ \A i \in saleItems : i.saleId = newSale[p].id
             /\ salesSeq = Cardinality({ o \in Procs : PastCreateSale(o) })
             /\ Done(p)
                => \A b \in DOMAIN drugBatches :
                     drugBatches[b].quantity
                       = InitQty - (IF Succeeded(p) THEN Dec(p, b) ELSE 0)

\* Two commits of the same millisecond: the first went through all its lines
\* and decremented the batch; the second was refused at createSale and left
\* nothing in the store.
C23_Witness ==
  \E p \in Procs, q \in Procs :
    /\ Collide(p, q)
    /\ Succeeded(p) /\ updates[p] = Len(Cart(p)) /\ updates[p] > 0
    /\ drugBatches[SharedBatch].quantity = InitQty - Dec(p, SharedBatch)
    /\ Done(q) /\ res[q].status = 500
    /\ newSale[q] = NoRow /\ items[q] = <<>> /\ updates[q] = 0
    /\ salesSeq = 2

\* The quantities of a set of SaleItem rows, added up.
RECURSIVE SumItems(_)
SumItems(S) ==
  IF S = {} THEN 0
  ELSE LET i == CHOOSE j \in S : TRUE IN i.quantity + SumItems(S \ {i})
SoldFrom(b) == SumItems({ i \in saleItems : i.drugBatchId = b })

\* C24: stock conservation: in every state in which no sale commit is in
\* flight, for every DrugBatch b, the initial quantity of b minus its current
\* quantity equals the sum of the quantities of all persisted SaleItems that
\* reference b, whether the commits ran one after the other or interleaved.
C24_StockConservation ==
  (\A p \in Procs : ~InFlight(p))
  => \A b \in BatchIds : InitQty - drugBatches[b].quantity = SoldFrom(b)

\* The lines 1..i of a cart that name batch b.
LinesUpTo(c, i, b) == { j \in LinesOn(c, b) : j <= i }

\* C25: when one cart names the same existing DrugBatch in several lines and
\* no other commit is in flight, the commit decrements that batch once per
\* line: each line reads the quantity the previous line wrote, and the final
\* quantity is the quantity before the commit minus the sum of the quantities
\* of all lines that name the batch.
C25_RepeatedBatch ==
  \A p \in Procs, b \in BatchIds :
    (HasBody(p) /\ RanLast(p) /\ req[p].body.items.present
       /\ Cardinality(LinesOn(Cart(p), b)) >= 2)
    => /\ (pc[p] = "updateDrugBatch" /\ Cart(p)[idx[p]].drugBatchId.val = b)
          => /\ newQty[p] = pre[p].drugBatches[b].quantity
                              - SumQty(Cart(p), LinesUpTo(Cart(p), idx[p], b))
             /\ drugBatches[b].quantity
                  = pre[p].drugBatches[b].quantity
                      - SumQty(Cart(p), LinesUpTo(Cart(p), idx[p] - 1, b))
       /\ Succeeded(p)
          => /\ drugBatches[b].quantity = pre[p].drugBatches[b].quantity - Dec(p, b)
             /\ updates[p] = Len(Cart(p))

\* A committed cart of two lines on the same batch, both with a positive
\* quantity: the batch is down by the sum of the two.
C25_Witness ==
  \E p \in Procs, b \in BatchIds :
    /\ Succeeded(p) /\ RanLast(p)
    /\ LinesOn(Cart(p), b) = {1, 2}
    /\ Cart(p)[1].quantity.val > 0 /\ Cart(p)[2].quantity.val > 0
    /\ drugBatches[b].quantity
         = InitQty - Cart(p)[1].quantity.val - Cart(p)[2].quantity.val

\* A step that is a call of POST /api/purchases.
PurchaseStep == calls' # calls /\ last'.route = CreatePurchase.name

\* C26: POST /api/purchases creates one Purchase and one PurchaseItem per
\* supplied item and leaves every DrugBatch unchanged: no batch quantity
\* increases and no batch is created as a result of a purchase order.
C26_PurchaseLeavesBatches ==
  [][ PurchaseStep
      => /\ DOMAIN drugBatches' = DOMAIN drugBatches
         /\ \A b \in DOMAIN drugBatches : drugBatches'[b] = drugBatches[b]
         /\ UNCHANGED <<sales, saleItems>>
         /\ \A t \in Tables \ {"purchases", "purchase_items"} : tables'[t] = tables[t]
         /\ last'.status = CreatePurchase.success
            => /\ tables'["purchases"] = tables["purchases"] + 1
               /\ tables'["purchase_items"] = tables["purchase_items"] + last'.supplied
         /\ last'.status \in {401, 403} => tables' = tables
    ]_vars

\* A purchase order of two items was answered 201: one Purchase and two
\* PurchaseItems are stored, and the batches are as they were at the start.
C26_Witness ==
  /\ last.route = CreatePurchase.name
  /\ last.status = 201
  /\ last.supplied = 2
  /\ tables["purchases"] = 1
  /\ tables["purchase_items"] = 2
  /\ DOMAIN drugBatches = BatchIds
  /\ \A b \in BatchIds : drugBatches[b].quantity = InitQty
====
